---- MODULE Spec2Model ----
(***************************************************************************)
(* Model of the image ingestion pipeline, the Celery job surface and the   *)
(* pgvector similarity search of the real-estate backend                   *)
(* (backend/app: services/crud.py, workers.py, routes/upload.py,           *)
(* routes/tasks.py, routes/query.py).                                      *)
(*                                                                         *)
(* Optional values (Python None / SQL NULL) are sequences of length 0,     *)
(* a present value x is the one-element sequence <<x>>; an embedding is    *)
(* its own non-empty sequence of numbers, NULL when empty.                 *)
(***************************************************************************)
EXTENDS Integers, Sequences, FiniteSets, TLC

\* ---------------------------------------------------------------- bounds
MaxUploads == 2       \* upload requests (synchronous or asynchronous)
MaxCount == 2         \* saturation of the per-upload call counters
MaxImages == 2        \* images in the store of the similarity-search model
MaxK == 3             \* largest result count asked of a search

Uploads == 1..MaxUploads

NULL == <<>>
Some(x) == <<x>>

\* ------------------------------------------------------------- variables
VARIABLES
    images,            \* committed rows of table images
    image_labels,      \* committed rows of table image_labels
    embeddings_index,  \* committed rows of table embeddings_index
    images_id_seq,     \* last value drawn from the serial sequence of images.id
    session,           \* per upload: rows written in the open transaction
    pc,                \* per upload: position in the handler / task
    mode,              \* per upload: "sync" (POST /upload/), "async" (POST /upload/async)
    args,              \* per upload: the listing_id the caller passed
    inferred,          \* per upload: what inference() returned
    exc,               \* per upload: str(e) of the exception caught, or NULL
    http,              \* per upload: status code of the HTTP response, 0 = none yet
    queue,             \* task ids held by the Celery broker
    backend,           \* Celery result backend: task id -> [state, result]
    polled,            \* the last poll of GET /tasks/{id}: [task_id, response]
    calls,             \* per upload: number of download / inference / insert calls
    search,            \* the last similarity search: its arguments and outcome
    listings,          \* committed rows of table listings (the denormalized columns)
    property_aggregations,         \* committed rows of table property_aggregations
    property_aggregations_id_seq,  \* last value drawn for property_aggregations.id
    recompute,         \* per call of update_property_aggregation: its position and locals
    calc,              \* the last call of calculate_property_aggregation and its outcome
    temporal_changes,  \* committed rows of table temporal_changes
    change,            \* the last call of generate_mock_temporal_change and its outcome
    conversations,     \* committed rows of table conversations
    conversations_id_seq,  \* last value drawn from the serial sequence of conversations.id
    messages,          \* committed rows of table messages, in the order of created_at
    chats,             \* per call of POST /chat/: its request, position and response
    msgsearch          \* the last call of search_similar_messages and its outcome

vars == <<images, image_labels, embeddings_index, images_id_seq, session, pc,
          mode, args, inferred, exc, http, queue, backend, polled, calls, search,
          listings, property_aggregations, property_aggregations_id_seq,
          recompute, calc, temporal_changes, change, conversations,
          conversations_id_seq, messages, chats, msgsearch>>

\* the tables of the chat and the state of its calls
chatvars == <<conversations, conversations_id_seq, messages, chats, msgsearch>>

\* the state of the uploads and jobs, which a search leaves alone
uploadvars == <<session, pc, mode, args, inferred, exc, http, queue, backend,
                polled, calls>>

\* the tables and call records of the aggregation and temporal-change
\* services, which uploads, jobs and searches leave alone
aggvars == <<listings, property_aggregations, property_aggregations_id_seq,
             recompute, calc>>
servicevars == <<listings, property_aggregations, property_aggregations_id_seq,
                 recompute, calc, temporal_changes, change, chatvars>>

\* ------------------------------------------------------- inference output
\* The predictions dict: a function from the keys it holds to their values
\* (scores in hundredths). StubPreds is what model_stub.inference returns;
\* a real model may return any dict, also the empty one.
EmptyPreds == [key \in {} |-> NULL]
StubPreds ==
    [room_type |-> [label |-> "kitchen", confidence |-> 93],
     condition_score |-> 78,
     natural_light_score |-> 61,
     feature_tags |-> <<"hardwood_floors", "island", "stainless_steel_appliances">>]
Payloads == {EmptyPreds, StubPreds}

\* Python's dict.get(key) and dict.get(key, default), as optional values
Get(d, key) == IF key \in DOMAIN d THEN Some(d[key]) ELSE NULL
GetOr(d, key, default) == IF key \in DOMAIN d THEN Some(d[key]) ELSE Some(default)
\* preds.get(key, {}).get(field)
GetIn(d, key, field) == IF key \in DOMAIN d THEN Get(d[key], field) ELSE NULL

\* embeddings: the image embedding is always returned, the text one is optional
StubEmbedding == <<1, 0>>
StubTextEmbedding == <<1, 0, 0>>
TextEmbeddings == {NULL, StubTextEmbedding}

\* the listing_id the uploads of this model pass (listing_id: int = None);
\* the handlers only copy it into the image row
ListingIds == {Some(1)}

NoInference == [preds |-> EmptyPreds, embedding |-> NULL, text_embedding |-> NULL]
EmptySession == [image |-> {}, label |-> {}, index |-> {}]
NoCalls == [download |-> 0, inference |-> 0, insert |-> 0]

Bump(c, f) == [c EXCEPT ![f] = IF @ < MaxCount THEN @ + 1 ELSE @]

\* ------------------------------------------------------- Celery payloads
\* Values a task result / info can hold; get_task_status looks only at
\* None-ness and truthiness of the value and prints it with str().
ResultOk(id) == [kind |-> "dict", status |-> "success", image_id |-> id, error |-> ""]
ResultError(msg) == [kind |-> "dict", status |-> "error", image_id |-> 0, error |-> msg]
ProgressMeta == [kind |-> "dict", status |-> "progress", image_id |-> 0, error |-> ""]
ExceptionInfo(msg) == [kind |-> "exception", status |-> "", image_id |-> 0, error |-> msg]

Pending == [state |-> "PENDING", result |-> NULL]
NotPolled == [task_id |-> 0, response |-> [status |-> "", result |-> NULL, error |-> NULL]]

NoSearch ==
    [call |-> "none", query |-> NULL, k_requested |-> NULL, k |-> 0,
     listing_id |-> NULL, kwargs |-> {}, rows |-> <<>>, error |-> NULL,
     results |-> <<>>, http |-> 0]

\* ------------------------------------- aggregation and temporal changes
\* listing ids in use; a Listing row exists for the first only (images and
\* aggregations carry listing_id as a plain integer, no foreign key)
MaxRecomputes == 2    \* calls of update_property_aggregation
Recomputes == 1..MaxRecomputes
AggListings == {1, 2}
NoListingColumns ==
    [dominant_room_types |-> NULL, overall_condition_score |-> NULL,
     room_counts |-> NULL, total_images |-> 0]
SeedListings == {[id |-> 1, agg |-> NoListingColumns]}

NoRecompute ==
    [pc |-> "new", listing_id |-> 0, agg_data |-> NULL, existing |-> NULL,
     result |-> NULL, exc |-> NULL]
NoCalc == [call |-> "none", listing_id |-> 0, scan |-> <<>>, result |-> NULL]
NoChange ==
    [call |-> "none", listing_id |-> 0, image_id |-> 0, previous_image_id |-> NULL,
     error |-> NULL, result |-> NULL]

\* the chat: calls of POST /chat/ and rows of table messages in the model
MaxChats == 2         \* calls of POST /chat/
MaxMessages == 3      \* rows of table messages
Chats == 1..MaxChats
NoChat ==
    [pc |-> "new", request_conversation_id |-> NULL, conversation_id |-> NULL,
     created |-> NULL, error |-> NULL, http |-> 0, response |-> NULL]
NoMessageSearch ==
    [call |-> "none", query |-> <<>>, conversation_id |-> NULL, k |-> 0,
     results |-> <<>>]

ServicesInit ==
    /\ listings = SeedListings
    /\ property_aggregations = {}
    /\ property_aggregations_id_seq = 0
    /\ recompute = [r \in Recomputes |-> NoRecompute]
    /\ calc = NoCalc
    /\ temporal_changes = {}
    /\ change = NoChange
    /\ conversations = {}
    /\ conversations_id_seq = 0
    /\ messages = <<>>
    /\ chats = [c \in Chats |-> NoChat]
    /\ msgsearch = NoMessageSearch

\* ------------------------------------------------------------------ Init
Init ==
    /\ images = {}
    /\ image_labels = {}
    /\ embeddings_index = {}
    /\ images_id_seq = 0
    /\ session = [p \in Uploads |-> EmptySession]
    /\ pc = [p \in Uploads |-> "new"]
    /\ mode = [p \in Uploads |-> ""]
    /\ args = [p \in Uploads |-> NULL]
    /\ inferred = [p \in Uploads |-> NoInference]
    /\ exc = [p \in Uploads |-> NULL]
    /\ http = [p \in Uploads |-> 0]
    /\ queue = {}
    /\ backend = [j \in Uploads |-> Pending]
    /\ polled = NotPolled
    /\ calls = [p \in Uploads |-> NoCalls]
    /\ search = NoSearch
    /\ ServicesInit

\* ------------------------------------------------------ the two handlers
\* What an upload does with an exception caught at its outermost try:
\* the session is closed without commit (its rows are rolled back); the
\* Celery task RETURNS an error dict, the synchronous handler answers 500.
Raise(p, msg) ==
    /\ session' = [session EXCEPT ![p] = EmptySession]
    /\ exc' = [exc EXCEPT ![p] = Some(msg)]
    /\ pc' = [pc EXCEPT ![p] = "done"]
    /\ IF mode[p] = "async"
         THEN /\ backend' = [backend EXCEPT ![p] =
                    [state |-> "SUCCESS", result |-> Some(ResultError(msg))]]
              /\ http' = http
         ELSE /\ http' = [http EXCEPT ![p] = 500]
              /\ backend' = backend

\* POST /upload/ up to the call of inference: read the file, upload_file
upload_image_sync(p) ==
    /\ search' = search /\ UNCHANGED servicevars
    /\ pc[p] = "new"
    /\ mode' = [mode EXCEPT ![p] = "sync"]
    /\ \E l \in ListingIds : args' = [args EXCEPT ![p] = l]
    /\ \/ /\ pc' = [pc EXCEPT ![p] = "inference"]
          /\ UNCHANGED <<http, exc>>
       \/ /\ pc' = [pc EXCEPT ![p] = "done"]       \* upload_file raised
          /\ http' = [http EXCEPT ![p] = 500]
          /\ exc' = [exc EXCEPT ![p] = Some("storage")]
    /\ UNCHANGED <<images, image_labels, embeddings_index, images_id_seq, session,
                   inferred, queue, backend, polled, calls>>

\* POST /upload/async: upload_file, then process_image_s3.delay(...)
upload_image_async(p) ==
    /\ search' = search /\ UNCHANGED servicevars
    /\ pc[p] = "new"
    /\ mode' = [mode EXCEPT ![p] = "async"]
    /\ \E l \in ListingIds : args' = [args EXCEPT ![p] = l]
    /\ \/ /\ pc' = [pc EXCEPT ![p] = "queued"]
          /\ queue' = queue \cup {p}
          /\ http' = [http EXCEPT ![p] = 200]
          /\ exc' = exc
       \/ /\ pc' = [pc EXCEPT ![p] = "done"]       \* upload_file or delay raised
          /\ http' = [http EXCEPT ![p] = 500]
          /\ exc' = [exc EXCEPT ![p] = Some("storage")]
          /\ queue' = queue
    /\ UNCHANGED <<images, image_labels, embeddings_index, images_id_seq, session,
                   inferred, backend, polled, calls>>

\* mutant of worker_receive: the message is acknowledged late and stays on
\* the broker while the task runs, so it is delivered again
worker_receive_redelivered(j) ==
    /\ search' = search /\ UNCHANGED servicevars
    /\ j \in queue
    /\ pc[j] \in {"queued", "done"}
    /\ calls[j].download < MaxCount
    /\ queue' = queue
    /\ pc' = [pc EXCEPT ![j] = "download"]
    /\ UNCHANGED <<images, image_labels, embeddings_index, images_id_seq, session,
                   mode, args, inferred, exc, http, backend, polled, calls>>

\* A Celery worker takes the task message off the broker (acknowledged on
\* receipt: the task declares neither acks_late nor a retry policy).
worker_receive(j) ==
    /\ search' = search /\ UNCHANGED servicevars
    /\ j \in queue
    /\ queue' = queue \ {j}
    /\ pc' = [pc EXCEPT ![j] = "download"]
    /\ UNCHANGED <<images, image_labels, embeddings_index, images_id_seq, session,
                   mode, args, inferred, exc, http, backend, polled, calls>>

\* mutant of process_image_s3_download: a failed download puts the task back
\* on the broker (a retry) instead of ending the task
process_image_s3_download_retry(j) ==
    /\ search' = search /\ UNCHANGED servicevars
    /\ pc[j] = "download"
    /\ calls' = [calls EXCEPT ![j] = Bump(@, "download")]
    /\ \/ /\ pc' = [pc EXCEPT ![j] = "inference"]
          /\ queue' = queue
       \/ /\ pc' = [pc EXCEPT ![j] = "queued"]
          /\ queue' = queue \cup {j}
    /\ UNCHANGED <<images, image_labels, embeddings_index, images_id_seq, session,
                   exc, http, backend, mode, args, inferred, polled>>

\* process_image_s3: image_data = download_file(s3_path)
process_image_s3_download(j) ==
    /\ search' = search /\ UNCHANGED servicevars
    /\ pc[j] = "download"
    /\ calls' = [calls EXCEPT ![j] = Bump(@, "download")]
    /\ \/ /\ pc' = [pc EXCEPT ![j] = "inference"]
          /\ UNCHANGED <<session, exc, http, backend>>
       \/ Raise(j, "download")
    /\ UNCHANGED <<images, image_labels, embeddings_index, images_id_seq,
                   mode, args, inferred, queue, polled>>

\* preds, embedding, text_embedding = inference(...)   (either handler)
inference(p) ==
    /\ search' = search /\ UNCHANGED servicevars
    /\ pc[p] = "inference"
    /\ calls' = [calls EXCEPT ![p] = Bump(@, "inference")]
    /\ \/ /\ \E pr \in Payloads, te \in TextEmbeddings :
                inferred' = [inferred EXCEPT ![p] =
                    [preds |-> pr, embedding |-> StubEmbedding, text_embedding |-> te]]
          /\ pc' = [pc EXCEPT ![p] = "insert"]
          /\ UNCHANGED <<session, exc, http, backend>>
       \/ /\ Raise(p, "inference")
          /\ inferred' = inferred
    /\ UNCHANGED <<images, image_labels, embeddings_index, images_id_seq,
                   mode, args, queue, polled>>

\* ------------------------------------------------ insert_image_record
\* The row insert_image_record builds for table images. s3_path is unique
\* per upload (upload_file prefixes a uuid4), so it is the upload's id here.
ImageRowOf(id, s3_path, listing_id, embedding, text_embedding) ==
    [id |-> id, filename |-> s3_path, s3_path |-> s3_path, thumb_path |-> NULL,
     listing_id |-> listing_id,
     embedding |-> embedding, text_embedding |-> text_embedding]

\* if preds: db.add(ImageLabel(image_id=image.id, ...)); both callers leave
\* model_version at None, so the column gets "model_v1"
LabelRowsOf(id, preds) ==
    IF DOMAIN preds # {}
      THEN {[image_id |-> id,
             room_type |-> GetIn(preds, "room_type", "label"),
             room_confidence |-> GetIn(preds, "room_type", "confidence"),
             condition_score |-> Get(preds, "condition_score"),
             natural_light_score |-> Get(preds, "natural_light_score"),
             features |-> GetOr(preds, "feature_tags", <<>>),
             localization |-> GetIn(preds, "localization", "label"),
             localization_confidence |-> GetIn(preds, "localization", "confidence"),
             style |-> GetIn(preds, "style", "label"),
             style_confidence |-> GetIn(preds, "style", "confidence"),
             work_recommendations |-> GetOr(preds, "work_recommendations", <<>>),
             cost_estimates |-> GetOr(preds, "cost_estimates", <<>>),
             model_version |-> Some("model_v1")]}
      ELSE {}

\* if text_embedding is not None: db.add(EmbeddingIndex(type="image", ...))
IndexRowsOf(id, text_embedding) ==
    IF text_embedding # NULL
      THEN {[type |-> "image", vector |-> text_embedding, ref_id |-> id]}
      ELSE {}

ImageRow(p, id) ==
    ImageRowOf(id, p, args[p], inferred[p].embedding, inferred[p].text_embedding)
LabelRows(p, id) == LabelRowsOf(id, inferred[p].preds)
IndexRows(p, id) == IndexRowsOf(id, inferred[p].text_embedding)

\* mutant of insert_image_record_flush: db.commit() where the code has
\* db.flush(), so the image row is committed before its label and index rows
insert_image_record_flush_commits(p) ==
    /\ search' = search /\ UNCHANGED servicevars
    /\ pc[p] = "insert"
    /\ calls' = [calls EXCEPT ![p] = Bump(@, "insert")]
    /\ images_id_seq' = images_id_seq + 1
    /\ images' = images \cup {ImageRow(p, images_id_seq + 1)}
    /\ session' = [session EXCEPT ![p] =
           [image |-> {ImageRow(p, images_id_seq + 1)},
            label |-> LabelRows(p, images_id_seq + 1),
            index |-> IndexRows(p, images_id_seq + 1)]]
    /\ pc' = [pc EXCEPT ![p] = "commit"]
    /\ UNCHANGED <<image_labels, embeddings_index, exc, http, backend>>
    /\ UNCHANGED <<mode, args, inferred, queue, polled>>

\* insert_image_record up to its db.commit(): db.add(image); db.flush() runs
\* the INSERT inside the open transaction and draws the id from the sequence
\* (a sequence is never rolled back); the label and index rows are then only
\* added to the session. Any statement of it may raise.
insert_image_record_flush(p) ==
    /\ search' = search /\ UNCHANGED servicevars
    /\ pc[p] = "insert"
    /\ calls' = [calls EXCEPT ![p] = Bump(@, "insert")]
    /\ \/ /\ images_id_seq' = images_id_seq + 1
          /\ session' = [session EXCEPT ![p] =
                 [image |-> {ImageRow(p, images_id_seq + 1)},
                  label |-> LabelRows(p, images_id_seq + 1),
                  index |-> IndexRows(p, images_id_seq + 1)]]
          /\ pc' = [pc EXCEPT ![p] = "commit"]
          /\ UNCHANGED <<exc, http, backend>>
       \/ /\ Raise(p, "persistence")
          /\ images_id_seq' \in {images_id_seq, images_id_seq + 1}
    /\ UNCHANGED <<images, image_labels, embeddings_index>>
    /\ UNCHANGED <<mode, args, inferred, queue, polled>>

\* the id of the image row the session holds (image.id after the flush)
SessionImageId(p) == (CHOOSE r \in session[p].image : TRUE).id

\* the keys of preds the UploadResponse of POST /upload/ is built from
ResponseKeys == {"room_type", "condition_score", "natural_light_score", "feature_tags"}

\* What the handler does once insert_image_record has returned image.id:
\* the task returns its result dict (Celery stores it with state SUCCESS);
\* the synchronous handler builds UploadResponse from preds["room_type"],
\* preds["condition_score"], ... and answers 500 when a key is missing.
Return(p, id) ==
    /\ pc' = [pc EXCEPT ![p] = "done"]
    /\ IF mode[p] = "async"
         THEN /\ backend' = [backend EXCEPT ![p] =
                    [state |-> "SUCCESS", result |-> Some(ResultOk(id))]]
              /\ UNCHANGED <<http, exc>>
         ELSE /\ backend' = backend
              /\ IF ResponseKeys \subseteq DOMAIN inferred[p].preds
                   THEN /\ http' = [http EXCEPT ![p] = 200]
                        /\ exc' = exc
                   ELSE /\ http' = [http EXCEPT ![p] = 500]
                        /\ exc' = [exc EXCEPT ![p] = Some("KeyError")]

\* db.commit(): the pending label and index rows are flushed and the whole
\* transaction commits, or the statement raises and nothing is committed.
insert_image_record_commit(p) ==
    /\ search' = search /\ UNCHANGED servicevars
    /\ pc[p] = "commit"
    /\ \/ /\ images' = images \cup session[p].image
          /\ image_labels' = image_labels \cup session[p].label
          /\ embeddings_index' = embeddings_index \cup session[p].index
          /\ session' = [session EXCEPT ![p] = EmptySession]
          /\ Return(p, SessionImageId(p))
       \/ /\ Raise(p, "persistence")
          /\ UNCHANGED <<images, image_labels, embeddings_index>>
    /\ UNCHANGED <<images_id_seq, mode, args, inferred, queue, polled, calls>>

\* ------------------------------------------------------ GET /tasks/{id}
\* "if task_result.info": None is falsy, an exception or a non-empty dict truthy
Truthy(v) == v # NULL

\* task_result.state.lower() on the states Celery defines
Lower(state) ==
    CASE state = "PENDING" -> "pending"
      [] state = "RECEIVED" -> "received"
      [] state = "STARTED" -> "started"
      [] state = "PROGRESS" -> "progress"
      [] state = "SUCCESS" -> "success"
      [] state = "FAILURE" -> "failure"
      [] state = "RETRY" -> "retry"
      [] state = "REVOKED" -> "revoked"

\* mutant of get_task_status_response: the failed branch prints the info
\* without the 'Task failed' fallback, so a failure without info has no error
get_task_status_response_no_fallback(r) ==
    IF r.state = "PENDING"
      THEN [status |-> "pending", result |-> NULL, error |-> NULL]
    ELSE IF r.state = "PROGRESS"
      THEN [status |-> "in_progress", result |-> r.result, error |-> NULL]
    ELSE IF r.state = "SUCCESS"
      THEN [status |-> "success", result |-> r.result, error |-> NULL]
    ELSE [status |-> Lower(r.state), result |-> NULL,
          error |-> IF Truthy(r.result) THEN Some(r.result[1].error) ELSE NULL]

\* the response dict get_task_status builds from AsyncResult(task_id)
get_task_status_response(r) ==
    IF r.state = "PENDING"
      THEN [status |-> "pending", result |-> NULL, error |-> NULL]
    ELSE IF r.state = "PROGRESS"
      THEN [status |-> "in_progress", result |-> r.result, error |-> NULL]
    ELSE IF r.state = "SUCCESS"
      THEN [status |-> "success", result |-> r.result, error |-> NULL]
    ELSE [status |-> Lower(r.state), result |-> NULL,
          error |-> IF Truthy(r.result) THEN Some(r.result[1].error)
                                       ELSE Some("Task failed")]

\* polled with a task id that POST /upload/async handed out
get_task_status(j) ==
    /\ search' = search /\ UNCHANGED servicevars
    /\ mode[j] = "async" /\ http[j] = 200
    /\ polled' = [task_id |-> j, response |-> get_task_status_response(backend[j])]
    /\ UNCHANGED <<images, image_labels, embeddings_index, images_id_seq, session,
                   pc, mode, args, inferred, exc, http, queue, backend, calls>>

\* ------------------------------------------------------------------ Next
Next ==
    \E p \in Uploads :
        \/ upload_image_sync(p)
        \/ upload_image_async(p)
        \/ worker_receive(p)
        \/ process_image_s3_download(p)
        \/ inference(p)
        \/ insert_image_record_flush(p)
        \/ insert_image_record_commit(p)
        \/ get_task_status(p)

Spec == Init /\ [][Next]_vars

\* The steps a Celery worker takes for task j. The worker pool keeps running:
\* a task that can take a step eventually takes it. Nothing makes a client
\* poll, so get_task_status is under no fairness.
Worker(j) ==
    /\ mode[j] = "async"
    /\ \/ worker_receive(j)
       \/ process_image_s3_download(j)
       \/ inference(j)
       \/ insert_image_record_flush(j)
       \/ insert_image_record_commit(j)

FairSpec == Spec /\ \A j \in Uploads : WF_vars(Worker(j))

\* ------------------------------------------------- ingestion and jobs
ImagesOf(p) == {img \in images : img.s3_path = p}
Enqueued(j) == mode[j] = "async" /\ http[j] = 200
Terminal(j) == backend[j].state \in {"SUCCESS", "FAILURE"}
Failed(j) == Enqueued(j) /\ pc[j] = "done" /\ exc[j] # NULL

\* C1: the image row, its label row (non-empty predictions) and its index row
\* (text embedding present) commit as one unit: in every committed state,
\* also after a failure at any step of an ingest, an image row of an ingest
\* with non-empty predictions has its label row, one of an ingest with a text
\* embedding has its index row, and no label or index row is without its image.
C1_IngestCommitsAsOneUnit ==
    /\ \A p \in Uploads : \A img \in ImagesOf(p) :
          /\ DOMAIN inferred[p].preds # {} =>
                \E l \in image_labels : l.image_id = img.id
          /\ inferred[p].text_embedding # NULL =>
                \E e \in embeddings_index : e.ref_id = img.id
    /\ \A l \in image_labels : \E img \in images : img.id = l.image_id
    /\ \A e \in embeddings_index : \E img \in images : img.id = e.ref_id

\* C1 witness: one ingest failed in the database after its image row was
\* flushed and left nothing; another committed image, label and index rows.
C1_Witness ==
    /\ \E p \in Uploads :
          /\ pc[p] = "done" /\ exc[p] = Some("persistence")
          /\ calls[p].insert = 1 /\ ImagesOf(p) = {}
    /\ \E q \in Uploads : \E img \in ImagesOf(q) :
          /\ DOMAIN inferred[q].preds # {} /\ inferred[q].text_embedding # NULL
          /\ \E l \in image_labels : l.image_id = img.id
          /\ \E e \in embeddings_index : e.ref_id = img.id

\* C2: when inference raises during an ingest, the failure reaches the caller
\* (HTTP 500 for the synchronous upload, a failed task for the job), inference
\* is not called again and no row is written for that image.
C2_InferenceErrorPropagates ==
    \A p \in Uploads : (pc[p] = "done" /\ exc[p] = Some("inference")) =>
        /\ calls[p].inference <= 1
        /\ ImagesOf(p) = {} /\ session[p] = EmptySession
        /\ mode[p] = "sync" => http[p] = 500
        /\ mode[p] = "async" => backend[p].state = "FAILURE"

\* C3: a job whose processing failed is reported by the status surface as
\* failed, with a null result and the error string of the failure.
C3_FailedJobReportedFailed ==
    \A j \in Uploads :
        (Failed(j) /\ polled.task_id = j /\ polled.response.status # "pending") =>
            /\ polled.response.status = "failure"
            /\ polled.response.result = NULL
            /\ polled.response.error = exc[j]

\* C4: a job is executed at most once: download, inference and ingest run at
\* most once per job id and one job creates at most one image row.
C4_JobRunsAtMostOnce ==
    \A j \in Uploads :
        /\ calls[j].download <= 1
        /\ calls[j].inference <= 1
        /\ calls[j].insert <= 1
        /\ Cardinality(ImagesOf(j)) <= 1

\* C4 witness: a failed job stays failed after one run, while another job
\* ran once and created its one image row.
C4_Witness ==
    /\ \E j \in Uploads : Failed(j) /\ calls[j].download = 1 /\ j \notin queue
    /\ \E k \in Uploads :
          /\ Enqueued(k) /\ pc[k] = "done" /\ exc[k] = NULL
          /\ calls[k] = [download |-> 1, inference |-> 1, insert |-> 1]
          /\ Cardinality(ImagesOf(k)) = 1

\* C6: under fair scheduling of the workers every enqueued job reaches a
\* terminal state, polled or not, and a terminal job's stored state and
\* result never change.
C6_JobsTerminate ==
    /\ \A j \in Uploads : (j \in queue) ~> Terminal(j)
    /\ [][\A j \in Uploads : Terminal(j) => backend'[j] = backend[j]]_vars

\* C6 witness: a job has reached its terminal state and no poll was ever made.
C6_Witness ==
    \E j \in Uploads : Enqueued(j) /\ Terminal(j) /\ polled = NotPolled

\* ------------------------------------------------- the job status surface
\* What the result backend can hold for a task id: the states Celery defines
\* with the info/result each carries. A PROGRESS record carries the meta dict
\* the task passed to update_state, a FAILURE record the exception raised (or
\* nothing), a SUCCESS record the dict process_image_s3 returned.
CeleryRecords ==
    { Pending,
      [state |-> "STARTED", result |-> NULL],
      [state |-> "PROGRESS", result |-> Some(ProgressMeta)],
      [state |-> "SUCCESS", result |-> Some(ResultOk(1))],
      [state |-> "SUCCESS", result |-> Some(ResultError("inference"))],
      [state |-> "FAILURE", result |-> Some(ExceptionInfo("worker lost"))],
      [state |-> "FAILURE", result |-> NULL],
      [state |-> "RETRY", result |-> Some(ExceptionInfo("retry"))],
      [state |-> "REVOKED", result |-> NULL] }

InitStatus ==
    /\ images = {} /\ image_labels = {} /\ embeddings_index = {}
    /\ images_id_seq = 0
    /\ session = [p \in Uploads |-> EmptySession]
    /\ pc = [p \in Uploads |-> "queued"]
    /\ mode = [p \in Uploads |-> "async"]
    /\ args = [p \in Uploads |-> NULL]
    /\ inferred = [p \in Uploads |-> NoInference]
    /\ exc = [p \in Uploads |-> NULL]
    /\ http = [p \in Uploads |-> 200]
    /\ queue = {}
    /\ backend \in [Uploads -> CeleryRecords]
    /\ polled = NotPolled
    /\ calls = [p \in Uploads |-> NoCalls]
    /\ search = NoSearch
    /\ ServicesInit

NextStatus == \E j \in Uploads : get_task_status(j)

SpecStatus == InitStatus /\ [][NextStatus]_vars

\* C5: for every job id and backend task state the status query returns one
\* status and the result/error fields follow the state: pending has neither,
\* in_progress a result and no error, succeeded the job's result and no
\* error, any other state no result and an error.
C5_StatusFollowsState ==
    polled.task_id \in Uploads =>
        LET rec == backend[polled.task_id]
            r == polled.response
        IN  /\ rec.state = "PENDING" =>
                  r = [status |-> "pending", result |-> NULL, error |-> NULL]
            /\ rec.state = "PROGRESS" =>
                  r.status = "in_progress" /\ r.result # NULL /\ r.error = NULL
            /\ rec.state = "SUCCESS" =>
                  /\ r.status = "success" /\ r.error = NULL
                  /\ r.result = rec.result /\ r.result # NULL
            /\ rec.state \notin {"PENDING", "PROGRESS", "SUCCESS"} =>
                  /\ r.status \notin {"pending", "in_progress", "success"}
                  /\ r.result = NULL /\ r.error # NULL

\* C5 witness: a failed task without info was polled and reported with the
\* fallback error text.
C5_Witness ==
    /\ polled.task_id \in Uploads
    /\ backend[polled.task_id] = [state |-> "FAILURE", result |-> NULL]
    /\ polled.response =
          [status |-> "failure", result |-> NULL, error |-> Some("Task failed")]

\* ------------------------------------------------------ similarity search
\* Embeddings of the similarity-search model: vectors of the width of the
\* images.embedding column and of the images.text_embedding column.
ImageVectors == {<<1, 0>>, <<0, 1>>}
TextVectors == {<<1, 0, 0>>}
ImageDim == Len(StubEmbedding)

\* listing ids of stored images and of search requests; 0 is an integer a
\* caller can pass like any other
SearchListingIds == {NULL, Some(0), Some(1)}

\* insert_image_record as a whole, when no statement of it raises: the
\* three rows are committed together. Searches only read the store, so one
\* search is recorded per store content: the record is cleared by the next
\* write and a search is taken when none is recorded.
insert_image_record(embedding, text_embedding, preds, listing_id) ==
    /\ images_id_seq < MaxImages
    /\ images_id_seq' = images_id_seq + 1
    /\ images' = images \cup
          {ImageRowOf(images_id_seq + 1, images_id_seq + 1, listing_id,
                      embedding, text_embedding)}
    /\ image_labels' = image_labels \cup LabelRowsOf(images_id_seq + 1, preds)
    /\ embeddings_index' =
          embeddings_index \cup IndexRowsOf(images_id_seq + 1, text_embedding)
    /\ search' = NoSearch
    /\ UNCHANGED <<uploadvars, servicevars>>

RECURSIVE DotTo(_, _, _)
DotTo(a, b, n) == IF n = 0 THEN 0 ELSE a[n] * b[n] + DotTo(a, b, n - 1)

\* pgvector's operator <#>: the negative inner product
NegInnerProduct(a, b) == 0 - DotTo(a, b, Len(a))

\* "if listing_id:" is false for None and for 0
ListingGiven(listing_id) == listing_id # NULL /\ listing_id[1] # 0

\* FROM images i ... WHERE [i.listing_id = :listing_id AND] i.embedding IS NOT NULL
Candidates(listing_id) ==
    {img \in images :
        /\ img.embedding # NULL
        /\ ListingGiven(listing_id) => img.listing_id = listing_id}

\* LEFT JOIN image_labels il ON i.id = il.image_id
NoLabel ==
    [room_type |-> NULL, features |-> NULL, condition_score |-> NULL,
     natural_light_score |-> NULL]

Joined(listing_id) ==
    UNION { IF \E l \in image_labels : l.image_id = img.id
              THEN {<<img, l>> : l \in {x \in image_labels : x.image_id = img.id}}
              ELSE {<<img, NoLabel>>}
            : img \in Candidates(listing_id) }

\* the select list: nine columns, the ninth is 1 - (i.embedding <#> :query)
SelectRow(img, lab, query) ==
    << img.id, img.filename, img.s3_path, img.thumb_path, lab.room_type,
       lab.features, lab.condition_score, lab.natural_light_score,
       1 - NegInnerProduct(img.embedding, query) >>

RECURSIVE Orderings(_)
Orderings(S) ==
    IF S = {} THEN {<<>>}
    ELSE UNION {{<<x>> \o rest : rest \in Orderings(S \ {x})} : x \in S}

\* ORDER BY i.embedding <#> :query   (rows at equal distance in any order)
Ordered(listing_id, query) ==
    {o \in Orderings(Joined(listing_id)) :
        \A i \in 1..(Len(o) - 1) :
            NegInnerProduct(o[i][1].embedding, query)
                <= NegInnerProduct(o[i + 1][1].embedding, query)}

Min(a, b) == IF a <= b THEN a ELSE b

\* LIMIT :k
Limit(o, k) == SubSeq(o, 1, Min(k, Len(o)))

\* db.execute(sql, ...): the rows returned, or the error raised. LIMIT 0
\* returns no row without scanning; pgvector raises on the first row whose
\* vector has another dimension than the query.
SqlOutcomes(query, k, listing_id) ==
    IF k = 0
      THEN {[error |-> NULL, rows |-> <<>>]}
    ELSE IF Candidates(listing_id) # {} /\ Len(query) # ImageDim
      THEN {[error |-> Some("DataError"), rows |-> <<>>]}
    ELSE {[error |-> NULL,
           rows |-> Limit([i \in 1..Len(o) |-> SelectRow(o[i][1], o[i][2], query)], k)]
          : o \in Ordered(listing_id, query)}

\* The exception the list comprehension raises on a row, if any. It reads
\* row[0] .. row[9] in order: float(row[5]) is applied to the features column
\* (a list) and row[9] is past the end of a nine-column row.
RowError(row) ==
    IF row[6] # NULL THEN Some("TypeError")
    ELSE IF Len(row) < 10 THEN Some("IndexError")
    ELSE NULL

\* the dict the list comprehension builds from a row it can read
MapRow(row) ==
    [id |-> row[1], filename |-> row[2], s3_path |-> row[3], thumb_path |-> row[4],
     room_type |-> row[5], room_confidence |-> row[6], features |-> row[7],
     condition_score |-> row[8], natural_light_score |-> row[9],
     similarity |-> row[10]]

\* the parameters search_similar_images declares
SearchParameters == {"db", "query_embedding", "k", "listing_id"}

\* search_similar_images called with the keyword arguments kwargs: the set of
\* its possible outcomes [error, rows fetched, list returned]
search_similar_images(query, k, listing_id, kwargs) ==
    IF ~(kwargs \subseteq SearchParameters)
      THEN {[error |-> Some("TypeError"), rows |-> <<>>, results |-> <<>>]}
    ELSE {IF o.error # NULL
            THEN [error |-> o.error, rows |-> <<>>, results |-> <<>>]
          ELSE IF \E i \in 1..Len(o.rows) : RowError(o.rows[i]) # NULL
            THEN [error |-> RowError(o.rows[1]), rows |-> o.rows, results |-> <<>>]
          ELSE [error |-> NULL, rows |-> o.rows,
                results |-> [i \in 1..Len(o.rows) |-> MapRow(o.rows[i])]]
          : o \in SqlOutcomes(query, k, listing_id)}

\* a call of search_similar_images with the arguments its signature declares
search_similar_images_call(query, k, listing_id) ==
    /\ search.call = "none"
    /\ \E o \in search_similar_images(query, k, listing_id, SearchParameters) :
          search' = [call |-> "search_similar_images", query |-> query,
                     k_requested |-> Some(k), k |-> k, listing_id |-> listing_id,
                     kwargs |-> SearchParameters, rows |-> o.rows,
                     error |-> o.error, results |-> o.results, http |-> 0]
    /\ UNCHANGED <<images, image_labels, embeddings_index, images_id_seq, uploadvars,
                   servicevars>>

\* k=request.k or 6
DefaultK == 6
ForwardedK(k_requested) ==
    IF k_requested = NULL \/ k_requested[1] = 0 THEN DefaultK ELSE k_requested[1]

\* POST /query/: the text query is embedded (a text-embedding vector) and
\* search_similar_images is called with use_text_embedding=True; any
\* exception becomes HTTP 500.
query_images(query, k_requested, listing_id) ==
    /\ search.call = "none"
    /\ \E o \in search_similar_images(query, ForwardedK(k_requested), listing_id,
                    SearchParameters \cup {"use_text_embedding"}) :
          search' = [call |-> "query_images", query |-> query,
                     k_requested |-> k_requested, k |-> ForwardedK(k_requested),
                     listing_id |-> listing_id,
                     kwargs |-> SearchParameters \cup {"use_text_embedding"},
                     rows |-> o.rows, error |-> o.error, results |-> o.results,
                     http |-> IF o.error = NULL THEN 200 ELSE 500]
    /\ UNCHANGED <<images, image_labels, embeddings_index, images_id_seq, uploadvars,
                   servicevars>>

RequestedKs == {NULL} \cup {Some(k) : k \in 0..MaxK}

NextSearch ==
    \/ \E e \in ImageVectors, te \in {NULL} \cup TextVectors, pr \in Payloads,
          l \in SearchListingIds : insert_image_record(e, te, pr, l)
    \/ \E q \in ImageVectors \cup TextVectors, k \in 0..MaxK, l \in SearchListingIds :
          search_similar_images_call(q, k, l)
    \/ \E q \in TextVectors, kr \in RequestedKs, l \in SearchListingIds :
          query_images(q, kr, l)

SpecSearch == Init /\ [][NextSearch]_vars

ImageById(id) == CHOOSE img \in images : img.id = id

NonIncreasing(results) ==
    \A i \in 1..(Len(results) - 1) :
        results[i].similarity >= results[i + 1].similarity

\* C7: for every store, every query vector of the dimension of the embedding
\* column and every k >= 0, search_similar_images returns without error a list
\* of at most k results whose similarity scores are non-increasing.
C7_SearchReturnsRankedAtMostK ==
    (search.call = "search_similar_images" /\ Len(search.query) = ImageDim) =>
        /\ search.error = NULL
        /\ Len(search.results) <= search.k
        /\ NonIncreasing(search.results)

\* C8: a search made with use_text_embedding=True (the query path) is answered
\* by ranking the text-embedding column: it completes, and no image it ranks
\* has a null text embedding.
C8_TextSearchRanksTextColumn ==
    (search.call = "query_images" /\ "use_text_embedding" \in search.kwargs) =>
        /\ search.error = NULL
        /\ \A i \in 1..Len(search.rows) :
              ImageById(search.rows[i][1]).text_embedding # NULL

\* C9: when a listing id is supplied to the search (any integer), every image
\* the search selects belongs to exactly that listing.
C9_ListingFilterApplies ==
    (search.call = "search_similar_images" /\ search.listing_id # NULL) =>
        \A i \in 1..Len(search.rows) :
            ImageById(search.rows[i][1]).listing_id = search.listing_id

\* C10: a search with k = 0, and a search on an empty store, return an empty
\* list without error, from the function and from the query endpoint, which
\* forwards the k it was asked.
C10_EmptySearchReturnsEmptyList ==
    (search.call # "none" /\ (search.k_requested = Some(0) \/ images = {})) =>
        /\ search.error = NULL
        /\ search.results = <<>>
        /\ search.k_requested = Some(0) => search.k = 0
        /\ search.call = "query_images" => search.http = 200

\* C11: a search whose query vector has another dimension than the embedding
\* column fails with InvalidDimensionError, before any access to the store.
C11_InvalidDimensionRejected ==
    (search.call = "search_similar_images" /\ Len(search.query) # ImageDim) =>
        /\ search.error = Some("InvalidDimensionError")
        /\ search.rows = <<>>

\* C12: candidate rows at equal distance to the query come back in insertion
\* order (ascending id), and a row cut off by the limit at the distance of a
\* returned row was inserted after it.
C12_TiesInInsertionOrder ==
    search.call = "search_similar_images" =>
        /\ \A i, j \in 1..Len(search.rows) :
              (i < j /\ search.rows[i][9] = search.rows[j][9]) =>
                  search.rows[i][1] < search.rows[j][1]
        /\ \A i \in 1..Len(search.rows) :
              \A img \in Candidates(search.listing_id) :
                  ( /\ \A j \in 1..Len(search.rows) : search.rows[j][1] # img.id
                    /\ 1 - NegInnerProduct(img.embedding, search.query)
                          = search.rows[i][9] ) =>
                      search.rows[i][1] < img.id

\* ------------------------------------------------- property aggregation
MaxListingImages == 3    \* images ingested in the aggregation model

\* Label payloads of the aggregation model (scores in hundredths): without
\* label row, the stub's, zero scores only, and four that vary room type,
\* scores, style and localization, one of them without condition score.
AggPayloads ==
    { EmptyPreds, StubPreds,
      [condition_score |-> 0, natural_light_score |-> 0],
      [room_type |-> [label |-> "kitchen", confidence |-> 90], condition_score |-> 90,
       style |-> [label |-> "modern"], localization |-> [label |-> "interior"],
       feature_tags |-> <<"island">>],
      [room_type |-> [label |-> "kitchen", confidence |-> 80], condition_score |-> 70,
       natural_light_score |-> 50, style |-> [label |-> "rustic"]],
      [room_type |-> [label |-> "bathroom", confidence |-> 85], condition_score |-> 80,
       style |-> [label |-> "modern"], localization |-> [label |-> "exterior"]],
      [room_type |-> [label |-> "bathroom", confidence |-> 70],
       natural_light_score |-> 100, style |-> [label |-> "rustic"]] }

\* db.query(Image).filter(Image.listing_id == listing_id).all()
ImagesOfListing(listing_id) == {img \in images : img.listing_id = Some(listing_id)}

\* db.query(ImageLabel).filter(ImageLabel.image_id.in_(image_ids)).all()
LabelsOfListing(listing_id) ==
    {l \in image_labels : \E img \in ImagesOfListing(listing_id) : l.image_id = img.id}

\* [l.<field> for l in labels if l.<field> is not None], as a sequence
RECURSIVE NonNullScores(_, _, _)
NonNullScores(labels, field, n) ==
    IF n = 0 THEN <<>>
    ELSE IF labels[n][field] = NULL THEN NonNullScores(labels, field, n - 1)
    ELSE Append(NonNullScores(labels, field, n - 1), labels[n][field][1])

RECURSIVE SumSeq(_, _)
SumSeq(xs, n) == IF n = 0 THEN 0 ELSE xs[n] + SumSeq(xs, n - 1)

\* sum(xs) / len(xs) if xs else None, then "round(m, 3) if m else None":
\* the mean in thousandths, None also when the mean is 0
RoundedMean(xs) ==
    IF xs = <<>> THEN NULL
    ELSE IF SumSeq(xs, Len(xs)) = 0 THEN NULL
    ELSE Some((2 * 10 * SumSeq(xs, Len(xs)) + Len(xs)) \div (2 * Len(xs)))

\* "if label.room_type:" is false for None and for the empty string
TruthyValue(v) == v # NULL /\ v[1] # ""

\* counts[v] = counts.get(v, 0) + 1 over a scan: the dict as the sequence of
\* its <<key, count>> items in insertion order
RECURSIVE CountValues(_, _)
CountValues(vals, n) ==
    IF n = 0 THEN <<>>
    ELSE LET prev == CountValues(vals, n - 1)
         IN  IF ~TruthyValue(vals[n]) THEN prev
             ELSE IF \E i \in 1..Len(prev) : prev[i][1] = vals[n][1]
               THEN [i \in 1..Len(prev) |->
                       IF prev[i][1] = vals[n][1]
                         THEN <<prev[i][1], prev[i][2] + 1>> ELSE prev[i]]
             ELSE Append(prev, <<vals[n][1], 1>>)

CountField(labels, field) ==
    CountValues([i \in 1..Len(labels) |-> labels[i][field]], Len(labels))

\* mutant of MaxItem: the last of the items with the largest count
MaxItemLast(counts) ==
    IF counts = <<>> THEN NULL
    ELSE LET i == CHOOSE i \in 1..Len(counts) :
                     /\ \A j \in 1..Len(counts) : counts[j][2] <= counts[i][2]
                     /\ \A j \in (i + 1)..Len(counts) : counts[j][2] < counts[i][2]
         IN  Some(counts[i][1])

\* max(counts.items(), key=lambda x: x[1])[0] if counts else None: max keeps
\* the first of the items with the largest key
MaxItem(counts) ==
    IF counts = <<>> THEN NULL
    ELSE LET i == CHOOSE i \in 1..Len(counts) :
                     /\ \A j \in 1..Len(counts) : counts[j][2] <= counts[i][2]
                     /\ \A j \in 1..(i - 1) : counts[j][2] < counts[i][2]
         IN  Some(counts[i][1])

RECURSIVE SumCounts(_, _)
SumCounts(counts, n) == IF n = 0 THEN 0 ELSE counts[n][2] + SumCounts(counts, n - 1)

\* mutant of TotalOf: the number of keys instead of the sum of their counts
TotalOfKeys(counts) == IF counts # <<>> THEN Len(counts) ELSE 1

\* total = sum(counts.values()) if counts else 1
TotalOf(counts) == IF counts # <<>> THEN SumCounts(counts, Len(counts)) ELSE 1

\* {key: count / total for key, count in counts.items()}: each quotient as
\* the pair of its numerator and denominator
Distribution(counts) ==
    [i \in 1..Len(counts) |->
        [key |-> counts[i][1], num |-> counts[i][2], den |-> TotalOf(counts)]]

\* all_features.extend(label.features) for the labels whose features is a
\* non-empty list
RECURSIVE AllFeatures(_, _)
AllFeatures(labels, n) ==
    IF n = 0 THEN <<>>
    ELSE AllFeatures(labels, n - 1) \o
         (IF labels[n].features # NULL THEN labels[n].features[1] ELSE <<>>)

\* sorted(items, key=lambda x: x[1], reverse=True): a stable sort, items of
\* equal count keep their order
RECURSIVE SortedByCount(_)
SortedByCount(counts) ==
    IF counts = <<>> THEN <<>>
    ELSE LET i == CHOOSE i \in 1..Len(counts) :
                     /\ \A j \in 1..Len(counts) : counts[j][2] <= counts[i][2]
                     /\ \A j \in 1..(i - 1) : counts[j][2] < counts[i][2]
         IN  <<counts[i]>> \o
             SortedByCount(SubSeq(counts, 1, i - 1) \o SubSeq(counts, i + 1, Len(counts)))

TopFeatures == 10

\* common_features: the keys of the ten most frequent features
CommonFeatures(labels) ==
    LET all == AllFeatures(labels, Len(labels))
        sorted == SortedByCount(CountValues([i \in 1..Len(all) |-> Some(all[i])], Len(all)))
    IN  [i \in 1..Min(TopFeatures, Len(sorted)) |-> sorted[i][1]]

\* the dict calculate_property_aggregation returns for the labels in the
\* order the query returned them and the number of images of the listing
\* (last_calculated_at, a clock reading, is left out)
AggData(listing_id, labels, total_images) ==
    [listing_id |-> listing_id,
     overall_condition_score |->
         RoundedMean(NonNullScores(labels, "condition_score", Len(labels))),
     avg_natural_light_score |->
         RoundedMean(NonNullScores(labels, "natural_light_score", Len(labels))),
     room_counts |-> CountField(labels, "room_type"),
     dominant_room_type |-> MaxItem(CountField(labels, "room_type")),
     common_features |-> CommonFeatures(labels),
     dominant_style |-> MaxItem(CountField(labels, "style")),
     style_distribution |-> Distribution(CountField(labels, "style")),
     primary_localization |-> MaxItem(CountField(labels, "localization")),
     localization_distribution |-> Distribution(CountField(labels, "localization")),
     total_images |-> total_images,
     calculation_version |-> "v1.0"]

\* calculate_property_aggregation(db, listing_id): the set of its possible
\* outcomes [scan, result]. The label query has no ORDER BY, so the labels
\* come in any order; None when the listing has no image or no label.
calculate_property_aggregation(listing_id) ==
    IF ImagesOfListing(listing_id) = {} \/ LabelsOfListing(listing_id) = {}
      THEN {[scan |-> <<>>, result |-> NULL]}
    ELSE {[scan |-> labels,
           result |-> Some(AggData(listing_id, labels,
                                   Cardinality(ImagesOfListing(listing_id))))]
          : labels \in Orderings(LabelsOfListing(listing_id))}

\* insert_image_record as a whole for an image of a listing (its three rows
\* commit together); a calculation is recorded per store content
insert_image_record_of_listing(preds, listing_id) ==
    /\ images_id_seq < MaxListingImages
    /\ images_id_seq' = images_id_seq + 1
    /\ images' = images \cup
          {ImageRowOf(images_id_seq + 1, images_id_seq + 1, Some(listing_id),
                      StubEmbedding, NULL)}
    /\ image_labels' = image_labels \cup LabelRowsOf(images_id_seq + 1, preds)
    /\ calc' = NoCalc
    /\ UNCHANGED <<embeddings_index, uploadvars, search, listings,
                   property_aggregations, property_aggregations_id_seq, recompute,
                   temporal_changes, change, chatvars>>

\* a call of calculate_property_aggregation(db, listing_id)
calculate_property_aggregation_call(listing_id) ==
    /\ calc.call = "none"
    /\ \E o \in calculate_property_aggregation(listing_id) :
          calc' = [call |-> "calculate_property_aggregation",
                   listing_id |-> listing_id, scan |-> o.scan, result |-> o.result]
    /\ UNCHANGED <<images, image_labels, embeddings_index, images_id_seq, uploadvars,
                   search, listings, property_aggregations,
                   property_aggregations_id_seq, recompute, temporal_changes, change, chatvars>>

NextAgg ==
    \/ \E pr \in AggPayloads, l \in AggListings : insert_image_record_of_listing(pr, l)
    \/ \E l \in AggListings : calculate_property_aggregation_call(l)

SpecAgg == Init /\ [][NextAgg]_vars

\* ------------------------------------------ update_property_aggregation
\* update_property_aggregation, first statement: agg_data is calculated;
\* the call returns None when there is none
update_property_aggregation_calculate(r, listing_id) ==
    /\ recompute[r].pc = "new"
    /\ \E o \in calculate_property_aggregation(listing_id) :
          recompute' = [recompute EXCEPT ![r] =
              [@ EXCEPT !.listing_id = listing_id, !.agg_data = o.result,
                        !.pc = IF o.result = NULL THEN "done" ELSE "check"]]
    /\ UNCHANGED <<images, image_labels, embeddings_index, images_id_seq, uploadvars,
                   search, listings, property_aggregations,
                   property_aggregations_id_seq, calc, temporal_changes, change, chatvars>>

\* existing = db.query(PropertyAggregation).filter(listing_id == ...).first()
update_property_aggregation_check(r) ==
    /\ recompute[r].pc = "check"
    /\ LET found == {a \in property_aggregations :
                        a.listing_id = recompute[r].listing_id}
       IN  recompute' = [recompute EXCEPT ![r] =
              [@ EXCEPT !.pc = "write",
                        !.existing = IF found = {} THEN NULL
                                     ELSE Some((CHOOSE a \in found : TRUE).id)]]
    /\ UNCHANGED <<images, image_labels, embeddings_index, images_id_seq, uploadvars,
                   search, listings, property_aggregations,
                   property_aggregations_id_seq, calc, temporal_changes, change, chatvars>>

\* the Listing columns the creating branch writes, when the Listing exists
ListingColumns(agg_data) ==
    [dominant_room_types |->
        Some(IF TruthyValue(agg_data.dominant_room_type)
               THEN <<agg_data.dominant_room_type[1]>> ELSE <<>>),
     overall_condition_score |-> agg_data.overall_condition_score,
     room_counts |-> Some(agg_data.room_counts),
     total_images |-> agg_data.total_images]

\* mutant of update_property_aggregation_write: listing_id is not unique in
\* property_aggregations, so the INSERT of the creating branch always succeeds
update_property_aggregation_write_no_unique(r) ==
    /\ recompute[r].pc = "write"
    /\ LET rc == recompute[r]
           data == rc.agg_data[1]
           id == property_aggregations_id_seq + 1
       IN  IF rc.existing # NULL
             THEN /\ property_aggregations' =
                        {IF a.id = rc.existing[1] THEN [a EXCEPT !.agg = data] ELSE a
                         : a \in property_aggregations}
                  /\ recompute' = [recompute EXCEPT ![r] =
                        [@ EXCEPT !.pc = "done", !.result = rc.existing]]
                  /\ UNCHANGED <<property_aggregations_id_seq, listings>>
             ELSE /\ property_aggregations_id_seq' = id
                  /\ property_aggregations' = property_aggregations \cup
                        {[id |-> id, listing_id |-> rc.listing_id, agg |-> data]}
                  /\ listings' = {IF l.id = rc.listing_id
                                    THEN [l EXCEPT !.agg = ListingColumns(data)] ELSE l
                                  : l \in listings}
                  /\ recompute' = [recompute EXCEPT ![r] =
                        [@ EXCEPT !.pc = "done", !.result = Some(id)]]
    /\ UNCHANGED <<images, image_labels, embeddings_index, images_id_seq, uploadvars,
                   search, calc, temporal_changes, change, chatvars>>

\* mutant of update_property_aggregation_write: the updating branch also
\* writes the denormalized columns of the Listing row
update_property_aggregation_write_denormalizes(r) ==
    /\ recompute[r].pc = "write"
    /\ LET rc == recompute[r]
           data == rc.agg_data[1]
           id == property_aggregations_id_seq + 1
       IN  IF rc.existing # NULL
             THEN /\ property_aggregations' =
                        {IF a.id = rc.existing[1] THEN [a EXCEPT !.agg = data] ELSE a
                         : a \in property_aggregations}
                  /\ listings' = {IF l.id = rc.listing_id
                                    THEN [l EXCEPT !.agg = ListingColumns(data)] ELSE l
                                  : l \in listings}
                  /\ recompute' = [recompute EXCEPT ![r] =
                        [@ EXCEPT !.pc = "done", !.result = rc.existing]]
                  /\ UNCHANGED property_aggregations_id_seq
             ELSE IF \E a \in property_aggregations : a.listing_id = rc.listing_id
               THEN /\ property_aggregations_id_seq' = id
                    /\ recompute' = [recompute EXCEPT ![r] =
                          [@ EXCEPT !.pc = "done", !.exc = Some("IntegrityError")]]
                    /\ UNCHANGED <<property_aggregations, listings>>
             ELSE /\ property_aggregations_id_seq' = id
                  /\ property_aggregations' = property_aggregations \cup
                        {[id |-> id, listing_id |-> rc.listing_id, agg |-> data]}
                  /\ listings' = {IF l.id = rc.listing_id
                                    THEN [l EXCEPT !.agg = ListingColumns(data)] ELSE l
                                  : l \in listings}
                  /\ recompute' = [recompute EXCEPT ![r] =
                        [@ EXCEPT !.pc = "done", !.result = Some(id)]]
    /\ UNCHANGED <<images, image_labels, embeddings_index, images_id_seq, uploadvars,
                   search, calc, temporal_changes, change, chatvars>>

\* update_property_aggregation from "if existing:" on. Updating branch: the
\* columns of the row found are set, commit. Creating branch: INSERT and
\* commit, which the unique index on listing_id refuses with IntegrityError
\* when a row of the listing was committed meanwhile (the id drawn is lost);
\* then the Listing row, if there is one, gets its denormalized columns.
update_property_aggregation_write(r) ==
    /\ recompute[r].pc = "write"
    /\ LET rc == recompute[r]
           data == rc.agg_data[1]
           id == property_aggregations_id_seq + 1
       IN  IF rc.existing # NULL
             THEN /\ property_aggregations' =
                        {IF a.id = rc.existing[1] THEN [a EXCEPT !.agg = data] ELSE a
                         : a \in property_aggregations}
                  /\ recompute' = [recompute EXCEPT ![r] =
                        [@ EXCEPT !.pc = "done", !.result = rc.existing]]
                  /\ UNCHANGED <<property_aggregations_id_seq, listings>>
             ELSE IF \E a \in property_aggregations : a.listing_id = rc.listing_id
               THEN /\ property_aggregations_id_seq' = id
                    /\ recompute' = [recompute EXCEPT ![r] =
                          [@ EXCEPT !.pc = "done", !.exc = Some("IntegrityError")]]
                    /\ UNCHANGED <<property_aggregations, listings>>
             ELSE /\ property_aggregations_id_seq' = id
                  /\ property_aggregations' = property_aggregations \cup
                        {[id |-> id, listing_id |-> rc.listing_id, agg |-> data]}
                  /\ listings' = {IF l.id = rc.listing_id
                                    THEN [l EXCEPT !.agg = ListingColumns(data)] ELSE l
                                  : l \in listings}
                  /\ recompute' = [recompute EXCEPT ![r] =
                        [@ EXCEPT !.pc = "done", !.result = Some(id)]]
    /\ UNCHANGED <<images, image_labels, embeddings_index, images_id_seq, uploadvars,
                   search, calc, temporal_changes, change, chatvars>>

\* ingests and calls of update_property_aggregation, in any interleaving
NextRecompute ==
    \/ \E pr \in Payloads, l \in AggListings :
          insert_image_record(StubEmbedding, NULL, pr, Some(l))
    \/ \E r \in Recomputes, l \in AggListings : update_property_aggregation_calculate(r, l)
    \/ \E r \in Recomputes : update_property_aggregation_check(r)
    \/ \E r \in Recomputes : update_property_aggregation_write(r)

SpecRecompute == Init /\ [][NextRecompute]_vars

\* ------------------------------------------------ claims on aggregation
Calculated == calc.call = "calculate_property_aggregation"

\* C13: recompute returns null exactly when the listing has no image; for a
\* listing with N >= 1 images, labelled or not, it returns an aggregation
\* whose total_images is N.
C13_NullIffNoImages ==
    Calculated =>
        LET n == Cardinality(ImagesOfListing(calc.listing_id))
        IN  /\ calc.result = NULL <=> n = 0
            /\ n >= 1 => calc.result # NULL /\ calc.result[1].total_images = n

\* C14: every stored aggregation row's total_images is the number of image
\* rows its listing has now.
C14_TotalImagesIsCurrent ==
    \A a \in property_aggregations :
        a.agg.total_images = Cardinality(ImagesOfListing(a.listing_id))

RECURSIVE SumOf(_, _)
SumOf(S, field) ==
    IF S = {} THEN 0
    ELSE LET l == CHOOSE l \in S : TRUE IN l[field][1] + SumOf(S \ {l}, field)

\* the value v (in thousandths) is the mean of the field over the labels S
\* (in hundredths), to the third decimal
IsMeanOf(v, S, field) ==
    LET d == v * Cardinality(S) - 10 * SumOf(S, field)
    IN  2 * d <= Cardinality(S) /\ 2 * (0 - d) <= Cardinality(S)

\* C16: whenever a label of the listing has a non-null condition score,
\* overall_condition_score is non-null and is the mean of the non-null
\* condition scores; likewise avg_natural_light_score for the light scores.
C16_MeansOfNonNullScores ==
    (Calculated /\ calc.result # NULL) =>
        LET labels == LabelsOfListing(calc.listing_id)
            cond == {l \in labels : l.condition_score # NULL}
            light == {l \in labels : l.natural_light_score # NULL}
        IN  /\ cond # {} =>
                  /\ calc.result[1].overall_condition_score # NULL
                  /\ IsMeanOf(calc.result[1].overall_condition_score[1],
                              cond, "condition_score")
            /\ light # {} =>
                  /\ calc.result[1].avg_natural_light_score # NULL
                  /\ IsMeanOf(calc.result[1].avg_natural_light_score[1],
                              light, "natural_light_score")

\* positions of the scan whose label has value v in the field
Positions(scan, field, v) == {i \in 1..Len(scan) : scan[i][field] = Some(v)}
ValuesIn(scan, field) ==
    {scan[i][field][1] : i \in {j \in 1..Len(scan) : scan[j][field] # NULL}}
FirstPosition(scan, field, v) ==
    CHOOSE i \in Positions(scan, field, v) :
        \A j \in Positions(scan, field, v) : i <= j

\* d is the dominant value of the field over the scan: null when no label
\* has a value; else a value of maximal count, the first met among those
IsDominant(d, scan, field) ==
    IF ValuesIn(scan, field) = {} THEN d = NULL
    ELSE /\ d # NULL /\ d[1] \in ValuesIn(scan, field)
         /\ \A v \in ValuesIn(scan, field) :
               /\ Cardinality(Positions(scan, field, v))
                     <= Cardinality(Positions(scan, field, d[1]))
               /\ ( /\ v # d[1]
                    /\ Cardinality(Positions(scan, field, v))
                          = Cardinality(Positions(scan, field, d[1])) ) =>
                     FirstPosition(scan, field, d[1]) < FirstPosition(scan, field, v)

\* C17: for room type, style and localization the dominant value has the
\* maximum count, is the first met in the label scan among the values of
\* that count, and is null only when no label has a value.
C17_DominantIsFirstMaximum ==
    (Calculated /\ calc.result # NULL) =>
        /\ IsDominant(calc.result[1].dominant_room_type, calc.scan, "room_type")
        /\ IsDominant(calc.result[1].dominant_style, calc.scan, "style")
        /\ IsDominant(calc.result[1].primary_localization, calc.scan, "localization")

\* C17 witness: two room types tie at the maximum count and the aggregation
\* names the one met first, while no label has a localization.
C17_Witness ==
    /\ Calculated /\ calc.result # NULL
    /\ \E v \in ValuesIn(calc.scan, "room_type") :
          /\ Some(v) # calc.result[1].dominant_room_type
          /\ Cardinality(Positions(calc.scan, "room_type", v))
                = Cardinality(Positions(calc.scan, "room_type",
                                        calc.result[1].dominant_room_type[1]))
          /\ FirstPosition(calc.scan, "room_type", calc.result[1].dominant_room_type[1])
                < FirstPosition(calc.scan, "room_type", v)
    /\ ValuesIn(calc.scan, "localization") = {}
    /\ calc.result[1].primary_localization = NULL

\* dist is the distribution of the field over the scan: one entry per value,
\* count over the sum of counts, entries summing to 1; empty without values
IsDistribution(dist, scan, field) ==
    LET total == Cardinality({i \in 1..Len(scan) : scan[i][field] # NULL})
    IN  /\ {dist[i].key : i \in 1..Len(dist)} = ValuesIn(scan, field)
        /\ Len(dist) = Cardinality(ValuesIn(scan, field))
        /\ \A i \in 1..Len(dist) :
              /\ dist[i].num = Cardinality(Positions(scan, field, dist[i].key))
              /\ dist[i].den = total /\ dist[i].den # 0
        /\ ValuesIn(scan, field) # {} =>
              SumSeq([i \in 1..Len(dist) |-> dist[i].num], Len(dist)) = dist[1].den

\* C18: the style and localization distributions hold count / sum of counts
\* for every key, sum to 1 when the category has a label, and are empty,
\* with no division by zero, when it has none.
C18_DistributionsNormalized ==
    (Calculated /\ calc.result # NULL) =>
        /\ IsDistribution(calc.result[1].style_distribution, calc.scan, "style")
        /\ IsDistribution(calc.result[1].localization_distribution, calc.scan,
                          "localization")

\* C18 witness: a style met twice and another met once give 2/3 and 1/3,
\* and the one label with a localization gives that key 1/1.
C18_Witness ==
    /\ Calculated /\ calc.result # NULL
    /\ Len(calc.result[1].style_distribution) = 2
    /\ \E i \in 1..2 : /\ calc.result[1].style_distribution[i].num = 2
                       /\ calc.result[1].style_distribution[i].den = 3
    /\ Len(calc.result[1].localization_distribution) = 1
    /\ calc.result[1].localization_distribution[1].num = 1
    /\ calc.result[1].localization_distribution[1].den = 1

\* ------------------------------------------------------ temporal changes
\* round(random.uniform(0.5, 0.9), 2) and round(random.uniform(0.4, 0.95), 2),
\* in hundredths: some of the values each can take
PreviousValues == {50, 70, 90}
CurrentValues == {40, 70, 90, 95}
ChangeTypes == {"condition", "natural_light", "feature", "style"}
TimeDeltas == {1, 365}
ChangeImageIds == 1..MaxListingImages

Abs(x) == IF x < 0 THEN 0 - x ELSE x

\* abs(current_value - previous_value) is a subtraction of doubles: the sign
\* of its error against the exact difference, for the values above
\* (0.9 - 0.7 is 0.20000000000000007, 0.7 - 0.5 is 0.19999999999999996)
SubtractionError(previous_value, current_value) ==
    CASE <<previous_value, current_value>> \in {<<70, 90>>, <<90, 70>>} -> 1
      [] <<previous_value, current_value>> \in
            {<<50, 40>>, <<50, 70>>, <<50, 95>>, <<70, 40>>, <<90, 95>>} -> 0 - 1
      [] OTHER -> 0

\* change_magnitude > 0.2, on the unrounded magnitude
ReviewThreshold == 20
Flagged(previous_value, current_value) ==
    \/ Abs(current_value - previous_value) > ReviewThreshold
    \/ /\ Abs(current_value - previous_value) = ReviewThreshold
       /\ SubtractionError(previous_value, current_value) > 0

\* mutant of ChangeDirection: equal values count as improved
ChangeDirectionNoStable(previous_value, current_value) ==
    IF current_value >= previous_value THEN "improved" ELSE "degraded"

\* if current_value > previous_value: ... elif current_value < ...: ... else: ...
ChangeDirection(previous_value, current_value) ==
    IF current_value > previous_value THEN "improved"
    ELSE IF current_value < previous_value THEN "degraded"
    ELSE "stable"

\* generate_mock_temporal_change(listing_id, image_id, previous_image_id):
\* the dicts it can return (change_magnitude, rounded to 3 places, in
\* thousandths); it raises nothing, whatever previous_image_id is
generate_mock_temporal_change(listing_id, image_id, previous_image_id) ==
    {[listing_id |-> listing_id,
      image_id |-> image_id,
      change_type |-> t,
      change_magnitude |-> 10 * Abs(c - p),
      change_direction |-> ChangeDirection(p, c),
      previous_value |-> p,
      current_value |-> c,
      previous_image_id |-> previous_image_id,
      time_delta_days |-> d,
      model_version |-> "model_v1",
      flagged_for_review |-> Flagged(p, c)]
     : t \in ChangeTypes, p \in PreviousValues, c \in CurrentValues, d \in TimeDeltas}

\* a call of generate_mock_temporal_change; one call is recorded
generate_mock_temporal_change_call(listing_id, image_id, previous_image_id) ==
    /\ change.call = "none"
    /\ \E data \in generate_mock_temporal_change(listing_id, image_id, previous_image_id) :
          change' = [call |-> "generate_mock_temporal_change",
                     listing_id |-> listing_id, image_id |-> image_id,
                     previous_image_id |-> previous_image_id,
                     error |-> NULL, result |-> Some(data)]
    /\ UNCHANGED <<images, image_labels, embeddings_index, images_id_seq, uploadvars,
                   search, aggvars, temporal_changes, chatvars>>

\* the increasing sequence of the elements of a set of ids
SortedIds(S) ==
    CHOOSE s \in [1..Cardinality(S) -> S] :
        \A i, j \in 1..Cardinality(S) : i < j => s[i] < s[j]

\* TemporalChange(**change_data) with the id the table assigns
TemporalChangeRow(id, data) ==
    [key \in DOMAIN data \cup {"id"} |-> IF key = "id" THEN id ELSE data[key]]

\* seed_temporal_changes(db, listing_ids, image_ids) as seed_all calls it, on
\* the two listing ids and the ids of all images in creation order: for the
\* first half of the listings, listing_images is a random part of image_ids
\* (of ALL images, in their order); with two or more of them a change of
\* listing_images[0] against listing_images[1] is generated and stored.
seed_temporal_changes(listing_id, picked) ==
    /\ change.call = "none"
    /\ picked \subseteq 1..images_id_seq
    /\ Cardinality(picked) >= 2
    /\ LET listing_images == SortedIds(picked)
       IN  \E data \in generate_mock_temporal_change(
                          listing_id, listing_images[1], Some(listing_images[2])) :
              /\ temporal_changes' = temporal_changes \cup
                    {TemporalChangeRow(Cardinality(temporal_changes) + 1, data)}
              /\ change' = [call |-> "seed_temporal_changes",
                            listing_id |-> listing_id, image_id |-> listing_images[1],
                            previous_image_id |-> Some(listing_images[2]),
                            error |-> NULL, result |-> Some(data)]
    /\ UNCHANGED <<images, image_labels, embeddings_index, images_id_seq, uploadvars,
                   search, aggvars, chatvars>>

\* listing_ids[:len(listing_ids)//2] of the listing ids <<1, 2>>
SeededListings == {1}

NextTemporal ==
    \/ \E l \in AggListings : insert_image_record_of_listing(StubPreds, l)
    \/ \E l \in AggListings, i \in ChangeImageIds,
          pi \in {NULL} \cup {Some(j) : j \in ChangeImageIds} :
          generate_mock_temporal_change_call(l, i, pi)
    \/ \E l \in SeededListings, picked \in SUBSET ChangeImageIds :
          seed_temporal_changes(l, picked)

SpecTemporal == Init /\ [][NextTemporal]_vars

\* a change record produced by the last call, and the ones stored
Produced == IF change.result = NULL THEN {} ELSE {change.result[1]}

\* C19: a change requested without previous image id fails with
\* PreconditionError and produces no record; no record produced or stored
\* lacks its previous_image_id.
C19_NoChangeWithoutPrevious ==
    /\ (change.call # "none" /\ change.previous_image_id = NULL) =>
          change.error = Some("PreconditionError") /\ change.result = NULL
    /\ \A c \in Produced \cup temporal_changes : c.previous_image_id # NULL

\* C20: every record produced or stored has direction "improved" iff
\* current_value > previous_value, "degraded" iff current_value <
\* previous_value and "stable" iff the two are equal.
C20_DirectionFollowsValues ==
    \A c \in Produced \cup temporal_changes :
        /\ c.change_direction = "improved" <=> c.current_value > c.previous_value
        /\ c.change_direction = "degraded" <=> c.current_value < c.previous_value
        /\ c.change_direction = "stable" <=> c.current_value = c.previous_value

\* C20 witness: a stored record of equal values is "stable".
C20_Witness ==
    \E c \in temporal_changes :
        /\ c.current_value = c.previous_value /\ c.change_direction = "stable"
        /\ c.previous_image_id # NULL

\* C21: every record produced or stored has a non-negative change_magnitude
\* equal to the absolute difference of its two values, and is flagged for
\* review iff that stored magnitude is strictly greater than the threshold.
C21_MagnitudeAndFlag ==
    \A c \in Produced \cup temporal_changes :
        /\ c.change_magnitude >= 0
        /\ c.change_magnitude = 10 * Abs(c.current_value - c.previous_value)
        /\ c.flagged_for_review <=> c.change_magnitude > 10 * ReviewThreshold

\* C22: the previous image of every stored change row belongs to the
\* listing of the row and of its current image, and was created before the
\* current image (ids are drawn in creation order).
C22_PreviousImageEarlierSameListing ==
    \A c \in temporal_changes :
        c.previous_image_id # NULL =>
            /\ ImageById(c.previous_image_id[1]).listing_id = Some(c.listing_id)
            /\ ImageById(c.image_id).listing_id = Some(c.listing_id)
            /\ c.previous_image_id[1] < c.image_id

\* the label row of image id and whether key is a key of the payload
LabelOf(id) == CHOOSE l \in image_labels : l.image_id = id

\* C27: a field absent from a non-empty label payload is stored as null in
\* the label row, never as a default value.
C27_AbsentFieldsStoredNull ==
    \A p \in Uploads : \A img \in ImagesOf(p) :
        DOMAIN inferred[p].preds # {} =>
            LET preds == inferred[p].preds
                l == LabelOf(img.id)
            IN  /\ "room_type" \notin DOMAIN preds =>
                      l.room_type = NULL /\ l.room_confidence = NULL
                /\ "condition_score" \notin DOMAIN preds => l.condition_score = NULL
                /\ "natural_light_score" \notin DOMAIN preds =>
                      l.natural_light_score = NULL
                /\ "feature_tags" \notin DOMAIN preds => l.features = NULL
                /\ "style" \notin DOMAIN preds =>
                      l.style = NULL /\ l.style_confidence = NULL
                /\ "localization" \notin DOMAIN preds =>
                      l.localization = NULL /\ l.localization_confidence = NULL
                /\ "work_recommendations" \notin DOMAIN preds =>
                      l.work_recommendations = NULL
                /\ "cost_estimates" \notin DOMAIN preds => l.cost_estimates = NULL
                /\ "model_version" \notin DOMAIN preds => l.model_version = NULL

\* C30: a recompute of a listing that has its aggregation row changes that
\* row only and leaves the Listing rows as they are; the Listing rows are
\* written only by a recompute that creates an aggregation row.
C30_ListingWrittenOnCreationOnly ==
    [][ /\ \A r \in Recomputes :
              ( /\ recompute[r].pc = "write" /\ recompute[r].existing # NULL
                /\ recompute'[r].pc = "done" ) =>
                  /\ listings' = listings
                  /\ {a.id : a \in property_aggregations'}
                        = {a.id : a \in property_aggregations}
                  /\ \A a \in property_aggregations :
                        a.id # recompute[r].existing[1] => a \in property_aggregations'
        /\ listings' # listings =>
              \E r \in Recomputes :
                  /\ recompute[r].pc = "write" /\ recompute[r].existing = NULL
                  /\ recompute'[r].result # NULL
                  /\ \E a \in property_aggregations' :
                        /\ a.id = recompute'[r].result[1]
                        /\ a \notin property_aggregations
                        /\ \A b \in property_aggregations : b.listing_id # a.listing_id
      ]_vars

\* C30 witness: the recompute that created the row of listing 1 wrote one
\* image onto the Listing; a later recompute set the row to two images and
\* the Listing still says one.
C30_Witness ==
    \E a \in property_aggregations, l \in listings, r \in Recomputes :
        /\ l.id = a.listing_id /\ recompute[r].listing_id = l.id
        /\ recompute[r].pc = "done" /\ recompute[r].existing = Some(a.id)
        /\ a.agg.total_images = 2 /\ l.agg.total_images = 1

\* ------------------------------------------------------------------ chat
\* the other variables, which the chat and the message store leave alone
nonchatvars ==
    <<images, image_labels, embeddings_index, images_id_seq, uploadvars, search,
      aggvars, temporal_changes, change>>

\* ChatRequest.conversation_id: Optional[int] = None; the ids a caller sends
RequestConversationIds == {NULL} \cup {Some(i) : i \in 0..MaxChats}

\* "if request.conversation_id:" is false for None and for 0
ConversationIdGiven(conversation_id) ==
    conversation_id # NULL /\ conversation_id[1] # 0

\* create_conversation: db.add, db.commit, db.refresh; the commit either
\* stores the row under the next id or raises
create_conversation ==
    {[error |-> NULL, id |-> Some(conversations_id_seq + 1)],
     [error |-> Some("OperationalError"), id |-> NULL]}

\* what "except Exception as e: raise HTTPException(status_code=500, ...)"
\* makes of a chat call
ChatFailed(c, error) ==
    [chats EXCEPT ![c].pc = "done", ![c].error = error, ![c].http = 500]

\* POST /chat/, first statement: the supplied conversation id is taken as it
\* is (it is not looked up), or a conversation is created and committed
chat_get_or_create_conversation(c, request_conversation_id) ==
    /\ chats[c].pc = "new"
    /\ IF ConversationIdGiven(request_conversation_id)
         THEN /\ chats' = [chats EXCEPT ![c].pc = "embed",
                              ![c].request_conversation_id = request_conversation_id,
                              ![c].conversation_id = request_conversation_id]
              /\ UNCHANGED <<conversations, conversations_id_seq>>
       ELSE \E o \in create_conversation :
              IF o.error # NULL
                THEN /\ chats' = [ChatFailed(c, o.error) EXCEPT
                              ![c].request_conversation_id = request_conversation_id]
                     /\ UNCHANGED <<conversations, conversations_id_seq>>
              ELSE /\ conversations' = conversations \cup {[id |-> o.id[1]]}
                   /\ conversations_id_seq' = o.id[1]
                   /\ chats' = [chats EXCEPT ![c].pc = "embed",
                              ![c].request_conversation_id = request_conversation_id,
                              ![c].conversation_id = o.id, ![c].created = o.id]
    /\ UNCHANGED <<messages, msgsearch>>
    /\ UNCHANGED nonchatvars

\* user_embedding = get_text_embedding(request.message): the stub computes a
\* vector from the text and raises nothing
chat_get_text_embedding(c) ==
    /\ chats[c].pc = "embed"
    /\ chats' = [chats EXCEPT ![c].pc = "images"]
    /\ UNCHANGED <<conversations, conversations_id_seq, messages, msgsearch>>
    /\ UNCHANGED nonchatvars

\* the k the chat passes to search_similar_images
ChatImagesK == 6

\* similar_images = search_similar_images(db=db, query_embedding=..., k=6,
\* listing_id=request.listing_id, use_text_embedding=True). An outcome
\* without error would go on to search_similar_messages, call_llm and the
\* two add_message calls (position "messages"); the call has no such outcome.
chat_search_similar_images(c) ==
    /\ chats[c].pc = "images"
    /\ \E o \in search_similar_images(StubTextEmbedding, ChatImagesK, NULL,
                    SearchParameters \cup {"use_text_embedding"}) :
          chats' = IF o.error # NULL THEN ChatFailed(c, o.error)
                   ELSE [chats EXCEPT ![c].pc = "messages"]
    /\ UNCHANGED <<conversations, conversations_id_seq, messages, msgsearch>>
    /\ UNCHANGED nonchatvars

NextChat ==
    \/ \E c \in Chats, request_conversation_id \in RequestConversationIds :
          chat_get_or_create_conversation(c, request_conversation_id)
    \/ \E c \in Chats : chat_get_text_embedding(c)
    \/ \E c \in Chats : chat_search_similar_images(c)

SpecChat == Init /\ [][NextChat]_vars

\* ------------------------------------------------------------- messages
\* the values of Message.conversation_id (a plain integer, no foreign key),
\* role and embedding that the calls of this model write; a text is a pair of
\* its kind and the number of the chat call it belongs to (0: none)
MessageConversations == {1, 2}
MessageRoles == {"user", "assistant"}
MessageEmbeddings == {NULL, Some(<<1, 0, 0>>), Some(<<0, 1, 0>>)}
MessageQueries == {<<1, 0, 0>>, <<0, 1, 0>>}

\* add_message: Message(...), db.add, db.commit, db.refresh. created_at is
\* the time of the insert, so Append keeps messages in the order of created_at.
add_message(conversation_id, role, text, embedding) ==
    Append(messages,
           [id |-> Len(messages) + 1, conversation_id |-> conversation_id,
            role |-> role, text |-> text, embedding |-> embedding])

add_message_call(conversation_id, role, embedding) ==
    /\ Len(messages) < MaxMessages
    /\ messages' = add_message(conversation_id, role, <<"hello", 0>>, embedding)
    /\ msgsearch' = NoMessageSearch
    /\ UNCHANGED <<conversations, conversations_id_seq, chats>>
    /\ UNCHANGED nonchatvars

\* the rows of s, in their order, that carry conversation_id
RECURSIVE SelectMessages(_, _)
SelectMessages(s, conversation_id) ==
    IF s = <<>> THEN <<>>
    ELSE IF Head(s).conversation_id = conversation_id
      THEN <<Head(s)>> \o SelectMessages(Tail(s), conversation_id)
    ELSE SelectMessages(Tail(s), conversation_id)

\* get_conversation_messages: filter(Message.conversation_id == conversation_id)
\* .order_by(Message.created_at), mapped to dicts of id, role and text
get_conversation_messages(conversation_id) ==
    LET rows == SelectMessages(messages, conversation_id)
    IN  [i \in 1..Len(rows) |->
            [id |-> rows[i].id, role |-> rows[i].role, text |-> rows[i].text]]

\* the statement of the else branch: WHERE embedding IS NOT NULL
MessageCandidatesAll(conversation_id) ==
    {messages[i] : i \in {j \in 1..Len(messages) : messages[j].embedding # NULL}}

\* the statement of the if branch: ... AND conversation_id = :conversation_id
MessageCandidatesOf(conversation_id) ==
    {m \in MessageCandidatesAll(conversation_id) :
        m.conversation_id = conversation_id[1]}

MessageCandidatesUnfiltered(conversation_id) ==
    MessageCandidatesAll(conversation_id)

\* "if conversation_id:" chooses the statement
MessageCandidates(conversation_id) ==
    IF ConversationIdGiven(conversation_id)
      THEN MessageCandidatesOf(conversation_id)
    ELSE MessageCandidatesAll(conversation_id)

\* ORDER BY embedding <#> :query   (rows at equal distance in any order)
MessagesOrdered(conversation_id, query) ==
    {o \in Orderings(MessageCandidates(conversation_id)) :
        \A i \in 1..(Len(o) - 1) :
            NegInnerProduct(o[i].embedding[1], query)
                <= NegInnerProduct(o[i + 1].embedding[1], query)}

\* the dict built from each of the five columns of a row
MapMessageRow(m, query) ==
    [id |-> m.id, conversation_id |-> m.conversation_id, role |-> m.role,
     text |-> m.text, similarity |-> 1 - NegInnerProduct(m.embedding[1], query)]

\* search_similar_messages(db, query_embedding, conversation_id, k): the set
\* of the lists it can return
search_similar_messages(query, conversation_id, k) ==
    {[i \in 1..Len(Limit(o, k)) |-> MapMessageRow(o[i], query)]
        : o \in MessagesOrdered(conversation_id, query)}

\* k of search_similar_messages: its default, which is also what the chat passes
MessagesK == 5

\* a call of search_similar_messages; one call is recorded per store content
search_similar_messages_call(query, conversation_id, k) ==
    /\ msgsearch.call = "none"
    /\ messages # <<>>
    /\ \E results \in search_similar_messages(query, conversation_id, k) :
          msgsearch' = [call |-> "search_similar_messages", query |-> query,
                        conversation_id |-> conversation_id, k |-> k,
                        results |-> results]
    /\ UNCHANGED <<conversations, conversations_id_seq, messages, chats>>
    /\ UNCHANGED nonchatvars

NextMessages ==
    \/ \E conversation_id \in MessageConversations, role \in MessageRoles,
          embedding \in MessageEmbeddings :
          add_message_call(conversation_id, role, embedding)
    \/ \E query \in MessageQueries, k \in {1, MessagesK},
          conversation_id \in {NULL, Some(0)}
                                \cup {Some(i) : i \in MessageConversations} :
          search_similar_messages_call(query, conversation_id, k)

SpecMessages == Init /\ [][NextMessages]_vars

\* ------------------------------------------------------ claims on the chat
\* text=request.message of the first add_message of a chat call and
\* text=reply_text of its second (chat.py:156-172)
ChatUserText(c) == <<"message", c>>
ChatReplyText(c) == <<"reply", c>>

\* the chat call has ended and no collaborator (the database) failed in it
Finished(c) ==
    chats[c].pc = "done" /\ chats[c].error # Some("OperationalError")

HoldsMessage(conversation_id, role, text) ==
    \E i \in 1..Len(get_conversation_messages(conversation_id)) :
        /\ get_conversation_messages(conversation_id)[i].role = role
        /\ get_conversation_messages(conversation_id)[i].text = text

\* C23: a chat call creates exactly one conversation iff the request carries
\* no conversation id; with an id supplied it creates none, answers with the
\* supplied id and stores its two messages under that id.
C23_ConversationCreatedIffNoId ==
    \A c \in Chats :
        Finished(c) =>
            LET supplied == chats[c].request_conversation_id
            IN  /\ (chats[c].created # NULL) <=> (supplied = NULL)
                /\ supplied # NULL =>
                      /\ chats[c].created = NULL
                      /\ chats[c].http = 200
                      /\ chats[c].response = Some([conversation_id |-> supplied[1]])
                      /\ HoldsMessage(supplied[1], "user", ChatUserText(c))
                      /\ HoldsMessage(supplied[1], "assistant", ChatReplyText(c))

\* the chat calls that ended on conversation v
FinishedOn(v) ==
    {c \in Chats : Finished(c) /\ chats[c].conversation_id = Some(v)}

\* C24: after n chat calls made on a conversation that a chat call created,
\* its messages are exactly 2n, with roles user, assistant, user, assistant, ...
C24_TwoMessagesPerCall ==
    \A conv \in conversations :
        LET history == get_conversation_messages(conv.id)
        IN  /\ Len(history) = 2 * Cardinality(FinishedOn(conv.id))
            /\ \A i \in 1..Len(history) :
                  history[i].role = IF i % 2 = 1 THEN "user" ELSE "assistant"

\* C25: the user message of every chat call is stored before its assistant
\* message, whatever other chat calls do in between.
C25_UserBeforeAssistant ==
    \A c \in Chats :
        Finished(c) =>
            LET history == get_conversation_messages(chats[c].conversation_id[1])
            IN  \E i, j \in 1..Len(history) :
                    /\ i < j
                    /\ history[i].role = "user"
                    /\ history[i].text = ChatUserText(c)
                    /\ history[j].role = "assistant"
                    /\ history[j].text = ChatReplyText(c)

\* C26: the message similarity search, called with a conversation id a chat
\* request can resolve to, returns messages of that conversation only.
C26_RetrievalStaysInConversation ==
    (msgsearch.call = "search_similar_messages"
        /\ ConversationIdGiven(msgsearch.conversation_id)) =>
        \A i \in 1..Len(msgsearch.results) :
            msgsearch.results[i].conversation_id = msgsearch.conversation_id[1]

\* a search on one conversation returned a message while a message of
\* another conversation, as close to the query, was stored with an embedding
C26_Witness ==
    /\ msgsearch.call = "search_similar_messages"
    /\ ConversationIdGiven(msgsearch.conversation_id)
    /\ msgsearch.k = MessagesK
    /\ Len(msgsearch.results) >= 1
    /\ \E i \in 1..Len(messages) :
          /\ messages[i].conversation_id # msgsearch.conversation_id[1]
          /\ messages[i].embedding = Some(msgsearch.query)

\* C29: a chat call that failed leaves no conversation it created and no
\* message of its own behind.
C29_FailureLeavesStoresUntouched ==
    \A c \in Chats :
        chats[c].http = 500 =>
            /\ \A conv \in conversations : Some(conv.id) # chats[c].created
            /\ \A i \in 1..Len(messages) :
                  messages[i].text \notin {ChatUserText(c), ChatReplyText(c)}

====
